---- MODULE Spec2Model ----
(***************************************************************************)
(* The useTauri hook (src/hooks/useTauri.ts) of OpenVoice: the Session     *)
(* State Store (five useState cells), the four commands it issues to the   *)
(* backend (loadConfig, loadDevices, saveConfig, toggleRecording), the     *)
(* activation effect that registers six event listeners one await at a     *)
(* time, its cleanup, and the Settings view's handleSave that emits        *)
(* config-updated after a successful save.                                 *)
(*                                                                         *)
(* JS strings are sequences of one-character strings, so that slice,       *)
(* length, trim and truthiness are computed as the code computes them.     *)
(* One step of the model is one run-to-completion turn of the event loop:  *)
(* the code between two awaits.                                            *)
(***************************************************************************)
EXTENDS Integers, Sequences, FiniteSets, Bags, TLC

VARIABLES store, phase, nreg, handlers, unlisteners, disposed,
          loads, devs, save, toggle, pendingCU,
          persisted, activeDevice, last

vars == <<store, phase, nreg, handlers, unlisteners, disposed,
          loads, devs, save, toggle, pendingCU,
          persisted, activeDevice, last>>

(***************************************************************************)
(* Bounds of the model.                                                    *)
(***************************************************************************)
\* load procedures of one controller that may be in flight at once
\* the length of a long error message
LongLen == 60
MaxLoads == 2
\* get_audio_devices calls of one controller that may be in flight at once
MaxDevLoads == 1
\* toggleRecording calls of one controller over a run
MaxToggles == 2
\* config-updated notifications queued for one controller
MaxPending == 1
\* length of the short payloads of the main specification
ShortLen == 2

(***************************************************************************)
(* Program constants.                                                      *)
(***************************************************************************)
\* text.length > 50 ? text.slice(0, 50) + '...'
PreviewMax == 50
\* e.payload.slice(0, 40)
ErrorMax == 40

(***************************************************************************)
(* Values.                                                                 *)
(***************************************************************************)
\* JS null: a tuple no string (a sequence of single characters) equals
Null == <<"null">>

Str3(a, b, c) == <<a, b, c>>
Mic == Str3("m", "i", "c")
Key == <<"s", "k">>
Empty == <<>>

Digit(i) == CASE i % 4 = 0 -> "a" [] i % 4 = 1 -> "b" [] i % 4 = 2 -> "c" [] OTHER -> "d"

\* a text of n characters, no two neighbours alike
Text(n) == [i \in 1..n |-> Digit(i)]

\* the hook instances: each view that calls useTauri() owns one
Ctrls == {"c1", "c2"}

AppStates == {"idle", "recording", "processing", "success", "error"}

\* the six events, in the order setupListeners registers them
EventOrder == <<"recording-started", "recording-stopped", "transcription-started",
                "transcription-complete", "transcription-error", "config-updated">>

Events == {EventOrder[i] : i \in 1..Len(EventOrder)}

\* what the backend may hold when the program starts
InitConfigs == {[api_key |-> Null, audio_device |-> Null, model |-> Null],
                [api_key |-> Key, audio_device |-> Empty, model |-> Null],
                [api_key |-> Key, audio_device |-> Mic, model |-> Null]}

AudioDevice(n, d) == [name |-> n, is_default |-> d]
DeviceLists == {<<>>, <<AudioDevice(Mic, TRUE)>>}

\* JS truthiness of a string | null
Truthy(v) == v # Null /\ v # Empty

\* String.prototype.slice(0, n)
Slice(s, n) == SubSeq(s, 1, IF Len(s) < n THEN Len(s) ELSE n)

Ellipsis == <<".", ".", ".">>

(***************************************************************************)
(* The Session State Store: the five useState cells of one hook instance.  *)
(***************************************************************************)
\* useState<Config | null>(null): a record no Config equals
NoConfig == [null |-> TRUE]

InitialStore == [state |-> "idle", config |-> NoConfig, devices |-> <<>>,
                 preview |-> Empty, error |-> Empty]

setState(s, v) == [s EXCEPT !.state = v]
setConfig(s, v) == [s EXCEPT !.config = v]
setDevices(s, v) == [s EXCEPT !.devices = v]
setPreview(s, v) == [s EXCEPT !.preview = v]
setError(s, v) == [s EXCEPT !.error = v]

(***************************************************************************)
(* The six handlers, as functions of the store they are applied to.        *)
(***************************************************************************)
\* as OnRecordingStarted, but the preview of the last run is kept
OnRecordingStartedKeepsPreview(s) == setError(setState(s, "recording"), Empty)

\* as OnRecordingStarted, but the error of the last run is kept
OnRecordingStartedKeepsError(s) == setPreview(setState(s, "recording"), Empty)

OnRecordingStarted(s) == setError(setPreview(setState(s, "recording"), Empty), Empty)

\* as OnRecordingStopped, but only out of recording
OnRecordingStoppedGuarded(s) == IF s.state = "recording" THEN setState(s, "processing") ELSE s

OnRecordingStopped(s) == setState(s, "processing")

OnTranscriptionStarted(s) == setState(s, "processing")

\* as Preview, but a text of exactly PreviewMax characters is cut as well
PreviewFrom(text) == IF Len(text) >= PreviewMax THEN Slice(text, PreviewMax) \o Ellipsis ELSE text

Preview(text) == IF Len(text) > PreviewMax THEN Slice(text, PreviewMax) \o Ellipsis ELSE text

OnTranscriptionComplete(s, text) == setPreview(setState(s, "success"), Preview(text))

\* as OnTranscriptionError, but the preview of an earlier transcription is cleared
OnTranscriptionErrorClearsPreview(s, msg) ==
  setPreview(setError(setState(s, "error"), Slice(msg, ErrorMax)), Empty)

\* as OnTranscriptionError, but a cut message gets the ellipsis of the preview
OnTranscriptionErrorEllipsis(s, msg) ==
  setError(setState(s, "error"),
           IF Len(msg) > ErrorMax THEN Slice(msg, ErrorMax) \o Ellipsis ELSE msg)

OnTranscriptionError(s, msg) == setError(setState(s, "error"), Slice(msg, ErrorMax))

(***************************************************************************)
(* Procedure records.                                                      *)
(***************************************************************************)
\* one loadConfig call: free | load_sent | load_ok | load_err | dev_sent
\* val: the reply while load_ok, the deviceName sent while dev_sent
FreeLoad == [pc |-> "free", val |-> Null]

\* the handleSave/saveConfig call of a controller:
\* idle | save_sent | save_ok | save_err | dev_sent | dev_ok | dev_err | done
\* cand: newConfig; arg: the deviceName of its set_audio_device; saved, synced: how
\* save_config and set_audio_device ended; setDev, emits: the set_audio_device
\* commands and config-updated notifications it has issued; ret: what it returned
IdleSave == [pc |-> "idle", cand |-> NoConfig, arg |-> Null, saved |-> "none",
             synced |-> "none", setDev |-> 0, emits |-> 0, ret |-> "none"]

IdleToggle == [calls |-> 0, issued |-> 0, inflight |-> 0]

\* the last step taken: the operation, its controller, whether the command it
\* settled succeeded, how the async function that returned in it ended
\* (resolved | rejected | none), and for an event what the store held before
NoPre == [state |-> "none", preview |-> FALSE, error |-> FALSE]

Pre(s) == [state |-> s.state, preview |-> s.preview # Empty, error |-> s.error # Empty]

Last(op, c, ok) == [op |-> op, c |-> c, ok |-> ok, out |-> "none", pre |-> NoPre]

Returned(op, c, ok, out) == [Last(op, c, ok) EXCEPT !.out = out]

Handled(ev, c, s) == [Last(ev, c, TRUE) EXCEPT !.pre = Pre(s)]

\* the loadConfig calls of a controller that have not returned: a bag of
\* load records (calls in the same position are interchangeable)
Put(bag, r) == IF r.pc = "free" THEN bag ELSE bag (+) SetToBag({r})

Replace(bag, r, q) == Put(bag (-) SetToBag({r}), q)

InLoad(c, pc) == {r \in BagToSet(loads[c]) : r.pc \in pc}

\* loadConfig() up to its first await: invoke('load_config') is in flight
StartLoad(bag) == Put(bag, [pc |-> "load_sent", val |-> Null])

\* as Mounted, but setupListeners may run before the effect has started the loads
MountedEarly(c) == phase[c] \in {"created", "active", "torn"}

Mounted(c) == phase[c] \in {"active", "torn"}

(***************************************************************************)
(* Initial state: the hook has been constructed by its first render, the   *)
(* effect has not run yet.  InitOf(m) mounts the controllers in m.         *)
(***************************************************************************)
InitOf(m) ==
  /\ store = [c \in Ctrls |-> InitialStore]
  /\ phase = [c \in Ctrls |-> IF c \in m THEN "created" ELSE "absent"]
  /\ nreg = [c \in Ctrls |-> 0]
  /\ handlers = [c \in Ctrls |-> {}]
  /\ unlisteners = [c \in Ctrls |-> <<>>]
  /\ disposed = [c \in Ctrls |-> [e \in Events |-> 0]]
  /\ loads = [c \in Ctrls |-> EmptyBag]
  /\ devs = [c \in Ctrls |-> 0]
  /\ save = [c \in Ctrls |-> IdleSave]
  /\ toggle = [c \in Ctrls |-> IdleToggle]
  /\ pendingCU = [c \in Ctrls |-> 0]
  /\ persisted \in InitConfigs
  /\ activeDevice = Null
  /\ last = Last("init", "c1", TRUE)

Init == InitOf({"c1"})

(***************************************************************************)
(* Activation: the effect body.  loadConfig() and loadDevices() are called *)
(* without await, then setupListeners() runs to its first await.           *)
(***************************************************************************)
Activate(c) ==
  /\ phase[c] = "created"
  /\ phase' = [phase EXCEPT ![c] = "active"]
  /\ loads' = [loads EXCEPT ![c] = StartLoad(@)]
  /\ devs' = [devs EXCEPT ![c] = @ + 1]
  /\ last' = Last("activate", c, TRUE)
  /\ UNCHANGED <<store, nreg, handlers, unlisteners, disposed, save, toggle,
                 pendingCU, persisted, activeDevice>>

\* as Collected, but the disposer of the last subscription is left out
CollectedButLast(n) ==
  IF n = Len(EventOrder) THEN SubSeq(EventOrder, 1, Len(EventOrder) - 1) ELSE <<>>

\* the disposers setupListeners pushes once its sixth await has resolved
Collected(n) == IF n = Len(EventOrder) THEN EventOrder ELSE <<>>

\* one listen() of setupListeners resolves: its handler is registered, and the
\* function goes on to the next listen(), or pushes the six disposers
RegisterListener(c) ==
  /\ Mounted(c)
  /\ nreg[c] < Len(EventOrder)
  /\ nreg' = [nreg EXCEPT ![c] = @ + 1]
  /\ handlers' = [handlers EXCEPT ![c] = @ \cup {EventOrder[nreg[c] + 1]}]
  /\ unlisteners' = [unlisteners EXCEPT ![c] = @ \o Collected(nreg[c] + 1)]
  /\ last' = Last("listen", c, TRUE)
  /\ UNCHANGED <<store, phase, disposed, loads, devs, save, toggle,
                 pendingCU, persisted, activeDevice>>

Range(q) == {q[i] : i \in 1..Len(q)}

\* the disposers the cleanup invokes: unlisteners.forEach(fn => fn())
ToDispose(q) == Range(q)

\* the effect's cleanup, run once by the hosting lifecycle
Teardown(c) ==
  /\ phase[c] = "active"
  /\ phase' = [phase EXCEPT ![c] = "torn"]
  /\ handlers' = [handlers EXCEPT ![c] = @ \ ToDispose(unlisteners[c])]
  /\ disposed' = [disposed EXCEPT ![c] =
                    [e \in Events |-> IF e \in ToDispose(unlisteners[c]) THEN @[e] + 1 ELSE @[e]]]
  /\ pendingCU' = [pendingCU EXCEPT ![c] =
                    IF "config-updated" \in ToDispose(unlisteners[c]) THEN 0 ELSE @]
  /\ last' = Last("teardown", c, TRUE)
  /\ UNCHANGED <<store, nreg, unlisteners, loads, devs, save, toggle,
                 persisted, activeDevice>>

(***************************************************************************)
(* Delivery of the backend's events to a registered handler.               *)
(***************************************************************************)
Deliver(c, ev, s) ==
  /\ ev \in handlers[c]
  /\ store' = [store EXCEPT ![c] = s]
  /\ last' = Handled(ev, c, store[c])
  /\ UNCHANGED <<phase, nreg, handlers, unlisteners, disposed, loads, devs, save,
                 toggle, pendingCU, persisted, activeDevice>>

RecordingStarted(c) == Deliver(c, "recording-started", OnRecordingStarted(store[c]))

RecordingStopped(c) == Deliver(c, "recording-stopped", OnRecordingStopped(store[c]))

TranscriptionStarted(c) == Deliver(c, "transcription-started", OnTranscriptionStarted(store[c]))

TranscriptionComplete(c, text) ==
  Deliver(c, "transcription-complete", OnTranscriptionComplete(store[c], text))

TranscriptionError(c, msg) ==
  Deliver(c, "transcription-error", OnTranscriptionError(store[c], msg))

\* the config-updated handler calls loadConfig()
ConfigUpdated(c) ==
  /\ "config-updated" \in handlers[c]
  /\ pendingCU[c] > 0
  /\ BagCardinality(loads[c]) < MaxLoads
  /\ pendingCU' = [pendingCU EXCEPT ![c] = @ - 1]
  /\ loads' = [loads EXCEPT ![c] = StartLoad(@)]
  /\ last' = Handled("config-updated", c, store[c])
  /\ UNCHANGED <<store, phase, nreg, handlers, unlisteners, disposed, devs, save,
                 toggle, persisted, activeDevice>>

(***************************************************************************)
(* The backend, as section 6 of the spec gives its commands: save_config   *)
(* persists, load_config returns what is persisted, set_audio_device       *)
(* selects the capture device.  Any command may fail.                      *)
(***************************************************************************)
BackendLoad(ok, r) ==
  IF ok THEN [pc |-> "load_ok", val |-> persisted] ELSE [pc |-> "load_err", val |-> Null]

BackendSetDevice(ok, name) == IF ok THEN name ELSE activeDevice

BackendSave(ok, cfg) == IF ok THEN cfg ELSE persisted

(***************************************************************************)
(* loadConfig                                                              *)
(***************************************************************************)
\* the backend answers an invoke('load_config')
LoadConfigReply(c, r, ok) ==
  /\ r \in InLoad(c, {"load_sent"})
  /\ loads' = [loads EXCEPT ![c] = Replace(@, r, BackendLoad(ok, r))]
  /\ last' = Last("load_config", c, ok)
  /\ UNCHANGED <<store, phase, nreg, handlers, unlisteners, disposed, devs, save,
                 toggle, pendingCU, persisted, activeDevice>>

\* after setConfig(cfg): if (cfg.audio_device) invoke('set_audio_device', ...)
LoadThen(cfg) ==
  IF Truthy(cfg.audio_device) THEN [pc |-> "dev_sent", val |-> cfg.audio_device]
  ELSE FreeLoad

\* how the promise of loadConfig() ends: its try/catch spans both awaits
LoadConfigOutcome(ok) == "resolved"

\* the store after loadConfig's await of load_config resolved with cfg
LoadResolved(s, cfg) == setConfig(s, cfg)

\* as LoadRejected, but a failed load forgets the cached Config
LoadRejectedClears(s) == setConfig(s, NoConfig)

\* the store after loadConfig's catch ran
LoadRejected(s) == s

\* loadConfig resumes after its first await
LoadConfigSettle(c, r) ==
  /\ r \in InLoad(c, {"load_ok", "load_err"})
  /\ IF r.pc = "load_ok"
       THEN /\ store' = [store EXCEPT ![c] = LoadResolved(@, r.val)]
            /\ loads' = [loads EXCEPT ![c] = Replace(@, r, LoadThen(r.val))]
            /\ last' = Last("loadConfig:set", c, TRUE)
       ELSE /\ store' = [store EXCEPT ![c] = LoadRejected(@)]
            /\ loads' = [loads EXCEPT ![c] = Replace(@, r, FreeLoad)]
            /\ last' = Returned("loadConfig:catch", c, FALSE, LoadConfigOutcome(FALSE))
  /\ UNCHANGED <<phase, nreg, handlers, unlisteners, disposed, devs, save,
                 toggle, pendingCU, persisted, activeDevice>>

\* as LoadSynced, but a failed set_audio_device takes the loaded Config back
LoadSyncedRollsBack(s, ok) == IF ok THEN s ELSE setConfig(s, NoConfig)

\* the store after loadConfig's set_audio_device settled (ok, or caught)
LoadSynced(s, ok) == s

\* the backend runs loadConfig's set_audio_device and loadConfig returns
LoadSetDevice(c, r, ok) ==
  /\ r \in InLoad(c, {"dev_sent"})
  /\ activeDevice' = BackendSetDevice(ok, r.val)
  /\ store' = [store EXCEPT ![c] = LoadSynced(@, ok)]
  /\ loads' = [loads EXCEPT ![c] = Replace(@, r, FreeLoad)]
  /\ last' = Returned("loadConfig:device", c, ok, LoadConfigOutcome(ok))
  /\ UNCHANGED <<phase, nreg, handlers, unlisteners, disposed, devs, save,
                 toggle, pendingCU, persisted>>

(***************************************************************************)
(* loadDevices                                                             *)
(***************************************************************************)
\* the Refresh button of the Settings view
LoadDevices(c) ==
  /\ phase[c] = "active"
  /\ devs[c] < MaxDevLoads
  /\ devs' = [devs EXCEPT ![c] = @ + 1]
  /\ last' = Last("loadDevices", c, TRUE)
  /\ UNCHANGED <<store, phase, nreg, handlers, unlisteners, disposed, loads, save,
                 toggle, pendingCU, persisted, activeDevice>>

\* how the promise of loadDevices() ends
LoadDevicesOutcome(ok) == "resolved"

\* the store after loadDevices' await settled
DevicesSettled(s, ok, list) == IF ok THEN setDevices(s, list) ELSE s

LoadDevicesSettle(c, ok, list) ==
  /\ devs[c] > 0
  /\ devs' = [devs EXCEPT ![c] = @ - 1]
  /\ store' = [store EXCEPT ![c] = DevicesSettled(@, ok, list)]
  /\ last' = Returned("get_audio_devices", c, ok, LoadDevicesOutcome(ok))
  /\ UNCHANGED <<phase, nreg, handlers, unlisteners, disposed, loads, save,
                 toggle, pendingCU, persisted, activeDevice>>

(***************************************************************************)
(* toggleRecording                                                         *)
(***************************************************************************)
\* toggleRecording() up to its await: one invoke('toggle_recording')
IssueToggle(t) == [calls |-> t.calls + 1, issued |-> t.issued + 1, inflight |-> t.inflight + 1]

ToggleRecording(c) ==
  /\ phase[c] = "active"
  /\ toggle[c].calls < MaxToggles
  /\ toggle' = [toggle EXCEPT ![c] = IssueToggle(@)]
  /\ last' = Last("toggleRecording", c, TRUE)
  /\ UNCHANGED <<store, phase, nreg, handlers, unlisteners, disposed, loads, devs,
                 save, pendingCU, persisted, activeDevice>>

\* how the promise of toggleRecording() ends
ToggleOutcome(ok) == "resolved"

\* as ToggleSettled, but a failed command shows as the error state
ToggleSettledShowsError(s, ok) == IF ok THEN s ELSE setState(s, "error")

\* the store after toggleRecording's await settled (ok, or caught)
ToggleSettled(s, ok) == s

ToggleSettle(c, ok) ==
  /\ toggle[c].inflight > 0
  /\ toggle' = [toggle EXCEPT ![c].inflight = @ - 1]
  /\ store' = [store EXCEPT ![c] = ToggleSettled(@, ok)]
  /\ last' = Returned("toggle_recording", c, ok, ToggleOutcome(ok))
  /\ UNCHANGED <<phase, nreg, handlers, unlisteners, disposed, loads, devs,
                 save, pendingCU, persisted, activeDevice>>

(***************************************************************************)
(* handleSave and saveConfig                                               *)
(***************************************************************************)
\* String.prototype.trim, for the blanks the form can hold
RECURSIVE TrimLeft(_)
TrimLeft(s) == IF s # <<>> /\ Head(s) = " " THEN TrimLeft(Tail(s)) ELSE s

RECURSIVE TrimRight(_)
TrimRight(s) == IF s # <<>> /\ s[Len(s)] = " " THEN TrimRight(SubSeq(s, 1, Len(s) - 1)) ELSE s

Trim(s) == TrimRight(TrimLeft(s))

\* x || null
OrNull(v) == IF Truthy(v) THEN v ELSE Null

NewConfig(apiKey, audioDevice) ==
  [api_key |-> OrNull(Trim(apiKey)), audio_device |-> OrNull(audioDevice), model |-> Null]

\* what the Settings form can hold
FormKeys == {<<" ">>, <<" ">> \o Key}
FormDevices == {Empty, Mic}

SavesInFlight == Cardinality({c \in Ctrls : save[c].pc \notin {"idle", "done"}})

\* handleSave builds newConfig and calls saveConfig, which runs to its first await
HandleSave(c, apiKey, audioDevice) ==
  /\ phase[c] = "active"
  /\ save[c].pc \in {"idle", "done"}
  /\ \A d \in Ctrls : pendingCU[d] + SavesInFlight < MaxPending
  /\ save' = [save EXCEPT ![c] = [IdleSave EXCEPT !.pc = "save_sent",
                                                  !.cand = NewConfig(apiKey, audioDevice)]]
  /\ last' = Last("handleSave", c, TRUE)
  /\ UNCHANGED <<store, phase, nreg, handlers, unlisteners, disposed, loads, devs,
                 toggle, pendingCU, persisted, activeDevice>>

\* the backend runs save_config
SaveConfigReply(c, ok) ==
  /\ save[c].pc = "save_sent"
  /\ persisted' = BackendSave(ok, save[c].cand)
  /\ save' = [save EXCEPT ![c].pc = IF ok THEN "save_ok" ELSE "save_err",
                          ![c].saved = IF ok THEN "ok" ELSE "err"]
  /\ last' = Last("save_config", c, ok)
  /\ UNCHANGED <<store, phase, nreg, handlers, unlisteners, disposed, loads, devs,
                 toggle, pendingCU, activeDevice>>

\* as SaveThen, but set_audio_device is skipped for a device that is not
\* truthy, as loadConfig does
SaveThenIfDevice(sv) ==
  IF Truthy(sv.cand.audio_device)
    THEN [sv EXCEPT !.pc = "dev_sent", !.arg = sv.cand.audio_device, !.setDev = @ + 1]
    ELSE [sv EXCEPT !.pc = "dev_ok", !.synced = "ok"]

\* saveConfig after save_config resolved: invoke('set_audio_device', ...)
SaveThen(sv) == [sv EXCEPT !.pc = "dev_sent", !.arg = sv.cand.audio_device, !.setDev = @ + 1]

\* saveConfig's catch: return false; handleSave then emits nothing
SaveCaught(sv) == [sv EXCEPT !.pc = "done", !.ret = "false"]

\* saveConfig after set_audio_device resolved: return true; handleSave then
\* emits config-updated
SaveReturned(sv) == [sv EXCEPT !.pc = "done", !.ret = "true", !.emits = @ + 1]

\* as SaveStore, but the candidate is cached before the commands have settled
SaveStoreOptimistic(s, sv, ok) == setConfig(s, sv.cand)

\* the store when saveConfig returns
SaveStore(s, sv, ok) == IF ok THEN setConfig(s, sv.cand) ELSE s

\* emit('config-updated') reaches every handler registered for it
Emit(n) == [d \in Ctrls |-> IF "config-updated" \in handlers[d] THEN pendingCU[d] + n
                            ELSE pendingCU[d]]

\* saveConfig resumes after its first await
SaveConfigSettle(c) ==
  /\ save[c].pc \in {"save_ok", "save_err"}
  /\ IF save[c].pc = "save_ok"
       THEN /\ save' = [save EXCEPT ![c] = SaveThen(@)]
            /\ last' = Last("saveConfig:sync", c, TRUE)
       ELSE /\ save' = [save EXCEPT ![c] = SaveCaught(@)]
            /\ last' = Last("saveConfig:catch", c, FALSE)
  /\ pendingCU' = Emit(save'[c].emits - save[c].emits)
  /\ store' = [store EXCEPT ![c] = SaveStore(@, save[c], FALSE)]
  /\ UNCHANGED <<phase, nreg, handlers, unlisteners, disposed, loads, devs,
                 toggle, persisted, activeDevice>>

\* the backend runs saveConfig's set_audio_device
SaveDeviceReply(c, ok) ==
  /\ save[c].pc = "dev_sent"
  /\ activeDevice' = BackendSetDevice(ok, save[c].arg)
  /\ save' = [save EXCEPT ![c].pc = IF ok THEN "dev_ok" ELSE "dev_err",
                          ![c].synced = IF ok THEN "ok" ELSE "err"]
  /\ last' = Last("set_audio_device", c, ok)
  /\ UNCHANGED <<store, phase, nreg, handlers, unlisteners, disposed, loads, devs,
                 toggle, pendingCU, persisted>>

\* saveConfig resumes after its second await, returns, and handleSave goes on
SaveDeviceSettle(c) ==
  /\ save[c].pc \in {"dev_ok", "dev_err"}
  /\ IF save[c].pc = "dev_ok"
       THEN /\ save' = [save EXCEPT ![c] = SaveReturned(@)]
            /\ store' = [store EXCEPT ![c] = SaveStore(@, save[c], TRUE)]
            /\ last' = Last("saveConfig:return", c, TRUE)
       ELSE /\ save' = [save EXCEPT ![c] = SaveCaught(@)]
            /\ store' = [store EXCEPT ![c] = SaveStore(@, save[c], FALSE)]
            /\ last' = Last("saveConfig:catch", c, FALSE)
  /\ pendingCU' = Emit(save'[c].emits - save[c].emits)
  /\ UNCHANGED <<phase, nreg, handlers, unlisteners, disposed, loads, devs,
                 toggle, persisted, activeDevice>>

\* the backend (or a peer window) pushes config-updated to the registered handler
PushConfigUpdated(c) ==
  /\ "config-updated" \in handlers[c]
  /\ pendingCU[c] + SavesInFlight < MaxPending
  /\ pendingCU' = [pendingCU EXCEPT ![c] = @ + 1]
  /\ last' = Last("push", c, TRUE)
  /\ UNCHANGED <<store, phase, nreg, handlers, unlisteners, disposed, loads, devs, save,
                 toggle, persisted, activeDevice>>

\* payloads of the main specification: one short, one just over each limit
Texts == {Text(ShortLen), Text(PreviewMax + 1)}
Messages == {Text(ShortLen), Text(ErrorMax + 1)}

LifecycleStep(c) ==
  \/ Activate(c)
  \/ RegisterListener(c)
  \/ Teardown(c)

EventStep(c) ==
  \/ RecordingStarted(c)
  \/ RecordingStopped(c)
  \/ TranscriptionStarted(c)
  \/ \E text \in Texts : TranscriptionComplete(c, text)
  \/ \E msg \in Messages : TranscriptionError(c, msg)

LoadStep(c) ==
  \/ \E r \in BagToSet(loads[c]), ok \in BOOLEAN : LoadConfigReply(c, r, ok)
  \/ \E r \in BagToSet(loads[c]) : LoadConfigSettle(c, r)
  \/ \E r \in BagToSet(loads[c]), ok \in BOOLEAN : LoadSetDevice(c, r, ok)

DevicesStep(c) ==
  \/ LoadDevices(c)
  \/ \E ok \in BOOLEAN, list \in DeviceLists : LoadDevicesSettle(c, ok, list)

ToggleStep(c) ==
  \/ ToggleRecording(c)
  \/ \E ok \in BOOLEAN : ToggleSettle(c, ok)

SaveStep(c) ==
  \/ \E apiKey \in FormKeys, audioDevice \in FormDevices : HandleSave(c, apiKey, audioDevice)
  \/ \E ok \in BOOLEAN : SaveConfigReply(c, ok)
  \/ SaveConfigSettle(c)
  \/ \E ok \in BOOLEAN : SaveDeviceReply(c, ok)
  \/ SaveDeviceSettle(c)

ReloadStep(c) ==
  \/ PushConfigUpdated(c)
  \/ ConfigUpdated(c)

\* the steps of the loads and of the saves when no command fails
LoadOkStep(c) ==
  \/ \E r \in BagToSet(loads[c]) : LoadConfigReply(c, r, TRUE)
  \/ \E r \in BagToSet(loads[c]) : LoadConfigSettle(c, r)
  \/ \E r \in BagToSet(loads[c]) : LoadSetDevice(c, r, TRUE)

SaveOkStep(c) ==
  \/ \E apiKey \in FormKeys, audioDevice \in FormDevices : HandleSave(c, apiKey, audioDevice)
  \/ SaveConfigReply(c, TRUE)
  \/ SaveConfigSettle(c)
  \/ SaveDeviceReply(c, TRUE)
  \/ SaveDeviceSettle(c)

\* payloads around the two limits
PreviewTexts ==
  {Text(ShortLen), Text(PreviewMax - 1), Text(PreviewMax), Text(PreviewMax + 1)}
ErrorMessages ==
  {Text(ShortLen), Text(ErrorMax - 1), Text(ErrorMax), Text(ErrorMax + 1), Text(LongLen)}

\* the session: the lifecycle of the subscriptions, the six events and
\* toggleRecording, while the commands of the loads are still in flight
Next ==
  \E c \in Ctrls :
    \/ LifecycleStep(c)
    \/ EventStep(c)
    \/ ReloadStep(c)
    \/ ToggleStep(c)

Spec == Init /\ [][Next]_vars

\* the loads of the activation and of config-updated and the device list,
\* while recordings start and transcriptions fail
NextLoad ==
  \E c \in Ctrls :
    \/ Activate(c)
    \/ RegisterListener(c)
    \/ RecordingStarted(c)
    \/ \E msg \in Messages : TranscriptionError(c, msg)
    \/ ReloadStep(c)
    \/ LoadStep(c)
    \/ DevicesStep(c)

SpecLoad == Init /\ [][NextLoad]_vars

\* transcriptions that complete or fail with payloads around the two limits
NextText ==
  \E c \in Ctrls :
    \/ Activate(c)
    \/ RegisterListener(c)
    \/ RecordingStarted(c)
    \/ \E text \in PreviewTexts : TranscriptionComplete(c, text)
    \/ \E msg \in ErrorMessages : TranscriptionError(c, msg)

SpecText == Init /\ [][NextText]_vars

\* loads and saves that overlap, every command succeeding
NextSync ==
  \E c \in Ctrls :
    \/ Activate(c)
    \/ RegisterListener(c)
    \/ ConfigUpdated(c)
    \/ LoadOkStep(c)
    \/ SaveOkStep(c)
    \/ \E list \in DeviceLists : LoadDevicesSettle(c, TRUE, list)

SpecSync == Init /\ [][NextSync]_vars

\* the Settings view (c1) and the Overlay view (c2) side by side: both load and
\* subscribe, and once both are subscribed the Settings view saves; every
\* command succeeds; the backend starts with a Config that names a device
InitPeers == InitOf(Ctrls) /\ persisted.audio_device = Mic

NextPeers ==
  \/ \E c \in Ctrls :
       \/ Activate(c)
       \/ RegisterListener(c)
       \/ ConfigUpdated(c)
       \/ LoadOkStep(c)
  \/ (\A d \in Ctrls : "config-updated" \in handlers[d]) /\ SaveOkStep("c1")

SpecPeers == InitPeers /\ [][NextPeers]_vars

\* the saves, with the loads of the activation and of config-updated
NextSave ==
  \E c \in Ctrls :
    \/ Activate(c)
    \/ RegisterListener(c)
    \/ ConfigUpdated(c)
    \/ LoadStep(c)
    \/ SaveStep(c)

\* the backend holds a config whose device is the empty string; the saves
\* bring the null and the named device
InitSave == Init /\ persisted.audio_device = Empty

SpecSave == InitSave /\ [][NextSave]_vars

(***************************************************************************)
(* The claims.                                                             *)
(***************************************************************************)
SessionEvents == Events \ {"config-updated"}

Active(c) == phase[c] = "active" /\ nreg[c] = Len(EventOrder)

\* the transition table: the AppState an event leaves, given the one it found
Table(ev, before, after) ==
  CASE ev = "recording-started" -> after = "recording"
    [] ev = "recording-stopped" -> after = "processing"
    [] ev = "transcription-started" -> after = "processing"
    [] ev = "transcription-complete" -> after = "success"
    [] ev = "transcription-error" -> after = "error"
    [] ev = "config-updated" -> after = before

\* C1: the AppState is idle until the first event, and every delivered event
\* leaves the AppState the transition table gives for it, whatever the
\* AppState before (config-updated leaves it as it was).
C1_TransitionTable ==
  /\ \A c \in Ctrls : store[c].state = "idle"
  /\ [][\A c \in Ctrls :
          /\ (last'.op \in Events /\ last'.c = c)
               => Table(last'.op, store[c].state, store'[c].state)
          /\ (phase'[c] \in {"absent", "created"}) => store'[c].state = "idle"]_vars

\* recording-stopped reached a fully subscribed controller that was not recording
C1_Witness ==
  \E c \in Ctrls :
    /\ Active(c) /\ last.c = c /\ last.op = "recording-stopped"
    /\ last.pre.state = "success" /\ store[c].state = "processing"

\* C2: once the teardown of a controller has run, no handler of it runs and
\* no event changes its store.
C2_NoHandlerAfterTeardown ==
  \A c \in Ctrls : phase[c] = "torn" => ~(last.c = c /\ last.op \in Events)

\* the set_audio_device commands of a controller's loads that are in flight
DevCalls(bag) == BagCardinality([r \in {q \in BagToSet(bag) : q.pc = "dev_sent"} |-> bag[r]])

\* this step issued one set_audio_device(name) from a load of c, or none
Issued(c, name) ==
  /\ DevCalls(loads'[c]) = DevCalls(loads[c]) + 1
  /\ CopiesIn([pc |-> "dev_sent", val |-> name], loads'[c])
       = CopiesIn([pc |-> "dev_sent", val |-> name], loads[c]) + 1

NoneIssued(c) == DevCalls(loads'[c]) = DevCalls(loads[c])

\* C3: a save whose save_config failed has issued no set_audio_device and
\* emitted no config-updated, returns false, and none of its steps changes
\* the store or queues a notification.
C3_SaveFailure ==
  [][\A c \in Ctrls :
       /\ (save'[c].saved = "err")
            => /\ save'[c].setDev = 0
               /\ save'[c].emits = 0
               /\ save'[c].ret # "true"
               /\ (save'[c].pc = "done" => save'[c].ret = "false")
       /\ (save'[c] # save[c] /\ save'[c].saved # "ok")
            => (store'[c] = store[c] /\ pendingCU' = pendingCU)]_vars

\* a save has returned false after save_config failed, over a cached Config
\* that is not its candidate
C3_Witness ==
  \E c \in Ctrls :
    /\ last.c = c /\ last.op = "saveConfig:catch"
    /\ save[c].pc = "done" /\ save[c].saved = "err" /\ save[c].ret = "false"
    /\ store[c].config # NoConfig /\ store[c].config # save[c].cand

\* C4: a save whose save_config succeeded returns true, has emitted exactly
\* one config-updated and leaves the candidate cached, however its
\* set_audio_device ended.
C4_SaveSuccess ==
  \A c \in Ctrls :
    (save[c].pc = "done" /\ save[c].saved = "ok")
      => /\ save[c].ret = "true"
         /\ save[c].emits = 1
         /\ (last.c = c /\ last.op \in {"saveConfig:return", "saveConfig:catch"})
              => store[c].config = save[c].cand

\* C5 as written: loadConfig, resumed with the loaded Config, replaces the
\* cached Config and nothing else, and issues set_audio_device with the
\* loaded device exactly if that device is not null; a failure of that
\* command changes nothing in the store.
C5_SyncIffNonNull ==
  [][\A c \in Ctrls : \A r \in BagToSet(loads[c]) :
       /\ (r.pc = "load_ok" /\ LoadConfigSettle(c, r))
            => /\ store'[c] = [store[c] EXCEPT !.config = r.val]
               /\ IF r.val.audio_device # Null THEN Issued(c, r.val.audio_device)
                  ELSE NoneIssued(c)
       /\ LoadSetDevice(c, r, FALSE) => store'[c] = store[c]]_vars

\* C5 as amended: ... exactly if that device is neither null nor the empty
\* string.
C5_SyncIffTruthy ==
  [][\A c \in Ctrls : \A r \in BagToSet(loads[c]) :
       /\ (r.pc = "load_ok" /\ LoadConfigSettle(c, r))
            => /\ store'[c] = [store[c] EXCEPT !.config = r.val]
               /\ IF r.val.audio_device # Null /\ r.val.audio_device # Empty
                    THEN Issued(c, r.val.audio_device)
                    ELSE NoneIssued(c)
       /\ LoadSetDevice(c, r, FALSE) => store'[c] = store[c]]_vars

\* the set_audio_device of a load has failed and the loaded Config is cached
C5_Witness ==
  \E c \in Ctrls :
    /\ last.c = c /\ last.op = "loadConfig:device" /\ ~last.ok
    /\ store[c].config # NoConfig /\ store[c].config.audio_device = Mic
    /\ activeDevice = Null

\* C6: a failed load_config and a failed get_audio_devices change nothing in
\* the store, and the promise of loadConfig or loadDevices resolves.
C6_LoadFailure ==
  [][\A c \in Ctrls :
       /\ (last'.c = c /\ last'.op = "loadConfig:catch")
            => (store'[c] = store[c] /\ last'.out = "resolved")
       /\ (last'.c = c /\ last'.op = "get_audio_devices" /\ ~last'.ok)
            => (store'[c] = store[c] /\ last'.out = "resolved")
       /\ (last'.c = c /\ last'.op = "load_config" /\ ~last'.ok)
            => store'[c] = store[c]]_vars

\* a reload has failed over a cached Config, in the error state
C6_Witness ==
  \E c \in Ctrls :
    /\ last.c = c /\ last.op = "loadConfig:catch" /\ last.out = "resolved"
    /\ store[c].config # NoConfig /\ store[c].state = "error" /\ store[c].error # Empty

\* C7: every toggleRecording call has issued exactly one toggle_recording
\* command; neither the call nor the settling of the command, resolved or
\* rejected, changes the store, and its promise resolves; the AppState
\* changes only in the delivery of a session event.
C7_ToggleFrame ==
  [][\A c \in Ctrls :
       /\ toggle'[c].issued = toggle'[c].calls
       /\ (last'.c = c /\ last'.op \in {"toggleRecording", "toggle_recording"})
            => store'[c] = store[c]
       /\ (last'.op = "toggle_recording") => last'.out = "resolved"
       /\ (store'[c].state # store[c].state) => (last'.c = c /\ last'.op \in SessionEvents)]_vars

\* a toggle_recording command has failed while a recording was shown
C7_Witness ==
  \E c \in Ctrls :
    /\ last.c = c /\ last.op = "toggle_recording" /\ ~last.ok
    /\ toggle[c].calls = 1 /\ toggle[c].issued = 1
    /\ store[c].state = "recording"

\* C8: the delivery of recording-started leaves preview and error empty,
\* whatever they and the AppState were.
C8_RecordingStartedClears ==
  \A c \in Ctrls :
    (last.c = c /\ last.op = "recording-started")
      => store[c].preview = Empty /\ store[c].error = Empty

\* recording-started found a preview and an error
C8_Witness ==
  \E c \in Ctrls :
    /\ last.c = c /\ last.op = "recording-started"
    /\ last.pre.preview /\ last.pre.error
    /\ store[c].preview = Empty /\ store[c].error = Empty

\* C9: at most one of preview and error is non-empty.
C9_PreviewOrError ==
  \A c \in Ctrls : store[c].preview = Empty \/ store[c].error = Empty

\* C10: once the teardown has run and the subscriptions are registered, every
\* collected disposer has been invoked exactly once.
C10_DisposedOnce ==
  \A c \in Ctrls :
    (phase[c] = "torn" /\ nreg[c] = Len(EventOrder))
      => \A e \in Range(unlisteners[c]) : disposed[c][e] = 1

\* C11: a controller whose activation has completed, and that has not been
\* torn down, holds one subscription for each of the six events and has
\* collected exactly their six disposers, none twice and none invoked.
C11_SixSubscriptions ==
  \A c \in Ctrls :
    Active(c)
      => /\ handlers[c] = Events
         /\ Cardinality(handlers[c]) = 6
         /\ Len(unlisteners[c]) = 6
         /\ Range(unlisteners[c]) = handlers[c]
         /\ \A e \in Events : disposed[c][e] = 0

\* the activation has completed and an event has reached the last subscription
C11_Witness ==
  \E c \in Ctrls :
    /\ Active(c) /\ Len(unlisteners[c]) = 6
    /\ last.c = c /\ last.op = "config-updated"

\* C13: the transcription-complete handler shows a payload of at most 50
\* characters unchanged and a longer one as its first 50 characters followed
\* by "..."; the payloads have 49, 50 and 51 characters, and a short one.
C13_PreviewTruncation ==
  [][\A c \in Ctrls, text \in PreviewTexts :
       TranscriptionComplete(c, text)
         => store'[c].preview =
              IF Len(text) <= 50 THEN text
              ELSE SubSeq(text, 1, 50) \o <<".", ".", ".">>]_vars

\* a payload of 51 characters was shown as 50 characters and the ellipsis
C13_Witness ==
  \E c \in Ctrls :
    /\ last.op = "transcription-complete" /\ last.c = c
    /\ Len(store[c].preview) = 53
    /\ store[c].preview = SubSeq(Text(51), 1, 50) \o <<".", ".", ".">>
    /\ {49, 50, 51} \subseteq {Len(t) : t \in PreviewTexts}

\* C14: the transcription-error handler shows a message of at most 40
\* characters unchanged and a longer one as its first 40 characters with
\* nothing appended; the messages have 39, 40, 41 and 60 characters, and from
\* idle a long message gives the state error with the first 40 characters.
C14_ErrorTruncation ==
  [][\A c \in Ctrls, msg \in ErrorMessages :
       TranscriptionError(c, msg)
         => /\ store'[c].state = "error"
            /\ store'[c].error = IF Len(msg) <= 40 THEN msg ELSE SubSeq(msg, 1, 40)
            /\ Len(store'[c].error) <= 40]_vars

\* the first event of an idle controller was an error whose message was cut
C14_Witness ==
  \E c \in Ctrls :
    /\ last.op = "transcription-error" /\ last.c = c
    /\ last.pre.state = "idle"
    /\ store[c].state = "error"
    /\ store[c].error = SubSeq(Text(LongLen), 1, 40)
    /\ {39, 40, 41, LongLen} \subseteq {Len(m) : m \in ErrorMessages}

\* C15 as stated: when the first subscriptions are registered, the config load
\* of the activation, its set_audio_device included, has run to its end, and
\* so has the device enumeration.
C15_LoadsRunBeforeSubscriptions ==
  \A c \in Ctrls :
    (nreg[c] >= 1 /\ nreg[c] < Len(EventOrder) /\ last.op = "listen")
      => loads[c] = EmptyBag

\* C15, amended: the activation issues load_config and get_audio_devices and
\* awaits neither; no subscription is registered before both have been issued,
\* and a subscription may be registered while they are still in flight.
C15_LoadsIssuedBeforeSubscriptions ==
  [][\A c \in Ctrls :
       /\ (phase[c] = "created" /\ phase'[c] # "created")
            => /\ loads'[c] = StartLoad(loads[c])
               /\ BagCardinality(loads'[c]) = BagCardinality(loads[c]) + 1
               /\ devs'[c] = devs[c] + 1
               /\ nreg'[c] = 0 /\ handlers'[c] = {}
       /\ (handlers'[c] # handlers[c] /\ handlers[c] \subseteq handlers'[c])
            => /\ phase[c] # "created"
               /\ phase'[c] = phase[c]
               /\ loads'[c] = loads[c] /\ devs'[c] = devs[c]]_vars

\* a subscription has been registered while load_config and get_audio_devices
\* of the activation are both in flight
C15_Witness ==
  \E c \in Ctrls :
    /\ last.op = "listen" /\ last.c = c
    /\ nreg[c] >= 1 /\ nreg[c] < Len(EventOrder)
    /\ InLoad(c, {"load_sent"}) # {}
    /\ devs[c] = 1

\* C16: a save whose save_config succeeded issues set_audio_device exactly
\* once, with the candidate's device name even when it is null; it issues it
\* when saveConfig resumes after save_config resolved, never while save_config
\* is in flight and never after a failed save_config, and it replaces the
\* cached Config only after that set_audio_device has resolved.
C16_OneSyncAfterSave ==
  [][\A c \in Ctrls :
       /\ save'[c].setDev <= 1
       /\ (save'[c].pc = "save_sent") => save'[c].setDev = 0
       /\ (save'[c].setDev = 1)
            => /\ save'[c].saved = "ok"
               /\ save'[c].arg = save'[c].cand.audio_device
       /\ (save'[c].saved = "ok" /\ save'[c].pc # "save_ok") => save'[c].setDev = 1
       /\ (save'[c].setDev > save[c].setDev)
            => /\ save[c].pc = "save_ok"
               /\ last'.op = "saveConfig:sync"
               /\ store'[c] = store[c]
       /\ (save'[c] # save[c] /\ store'[c] # store[c])
            => /\ save[c].pc = "dev_ok" /\ save[c].setDev = 1
               /\ store'[c].config = save[c].cand]_vars

\* a save of a candidate whose device is null has returned true: its one
\* set_audio_device carried null
C16_Witness ==
  \E c \in Ctrls :
    /\ last.op = "saveConfig:return" /\ last.c = c
    /\ save[c].pc = "done" /\ save[c].ret = "true"
    /\ save[c].cand.audio_device = Null
    /\ save[c].arg = Null /\ save[c].setDev = 1
    /\ store[c].config = save[c].cand

\* the fields of the store of c that the step leaves as they were
Kept(c, fields) == \A f \in fields : store'[c][f] = store[c][f]

\* C17: a handler changes only the fields of its row: recording-stopped and
\* transcription-started keep preview, error, config and devices;
\* transcription-complete keeps error, config and devices; transcription-error
\* keeps preview, config and devices; recording-started keeps config and
\* devices; config-updated keeps state, preview, error and devices. The store
\* of another controller is never touched.
C17_HandlerFrame ==
  [][\A c \in Ctrls :
       (last'.c = c /\ last'.op \in Events)
         => /\ last'.op \in {"recording-stopped", "transcription-started"}
                 => Kept(c, {"preview", "error", "config", "devices"})
            /\ last'.op = "transcription-complete"
                 => Kept(c, {"error", "config", "devices"})
            /\ last'.op = "transcription-error"
                 => Kept(c, {"preview", "config", "devices"})
            /\ last'.op = "recording-started"
                 => Kept(c, {"config", "devices"})
            /\ last'.op = "config-updated"
                 => Kept(c, {"state", "preview", "error", "devices"})
            /\ \A d \in Ctrls \ {c} : store'[d] = store[d]]_vars

\* a transcription-error has arrived over the preview of an earlier
\* transcription and has left it in place
C17_Witness ==
  \E c \in Ctrls :
    /\ last.op = "transcription-error" /\ last.c = c
    /\ last.pre.preview /\ store[c].preview # Empty
    /\ ~last.pre.error /\ store[c].error # Empty

\* C18: while the state is recording or idle, preview and error are both
\* empty; the preview becomes non-empty, or changes, only in a
\* transcription-complete step and the error only in a transcription-error
\* step, and recording-started empties both, so that what is shown was set
\* since the last recording-started.
C18_EmptyWhileRecordingOrIdle ==
  /\ [](\A c \in Ctrls :
          store[c].state \in {"recording", "idle"}
            => store[c].preview = Empty /\ store[c].error = Empty)
  /\ [][\A c \in Ctrls :
          /\ (store'[c].preview # store[c].preview /\ store'[c].preview # Empty)
               => (last'.c = c /\ last'.op = "transcription-complete")
          /\ (store'[c].error # store[c].error /\ store'[c].error # Empty)
               => (last'.c = c /\ last'.op = "transcription-error")
          /\ (last'.c = c /\ last'.op = "recording-started")
               => (store'[c].preview = Empty /\ store'[c].error = Empty)]_vars

\* a recording has started over the preview of one run and the error of another
C18_Witness ==
  \E c \in Ctrls :
    /\ store[c].state = "recording"
    /\ last.op = "recording-started" /\ last.c = c
    /\ last.pre.state \in {"success", "error"}
    /\ last.pre.preview /\ last.pre.error
    /\ store[c] = [store[c] EXCEPT !.preview = Empty, !.error = Empty]

\* the controller is subscribed, none of its commands is in flight and no
\* config-updated is waiting for it
Settled(c) ==
  /\ Active(c)
  /\ loads[c] = EmptyBag /\ devs[c] = 0
  /\ save[c].pc \in {"idle", "done"}
  /\ pendingCU[c] = 0

\* C19: once every command of a controller has settled, none having failed,
\* the device the backend captures from is the device of the Config it has
\* persisted (no device when that is null or empty), whatever the order in
\* which the set_audio_device calls of a load and of a save reached it.
C19_DeviceIsPersisted ==
  \A c \in Ctrls : Settled(c) => activeDevice = OrNull(persisted.audio_device)

\* C20: once the loads and saves of a controller have all settled, none having
\* failed, its cached Config is the Config the backend has persisted, whatever
\* the order in which the responses settled.
C20_CacheIsPersisted ==
  \A c \in Ctrls : Settled(c) => store[c].config = persisted

\* the loads and the save of c have settled and no config-updated waits for it
Quiet(c) ==
  /\ "config-updated" \in handlers[c]
  /\ loads[c] = EmptyBag
  /\ save[c].pc \in {"idle", "done"}
  /\ pendingCU[c] = 0

\* C12: with the two controllers subscribed, once a save of the one has
\* returned true and every command of both has settled, none having failed
\* and no later save having been made, the cached Config of the other is the
\* saved candidate; the config-updated handler changes no state, preview or
\* error.
C12_PeerEndsWithCandidate ==
  (Quiet("c1") /\ Quiet("c2") /\ save["c1"].ret = "true")
    => store["c2"].config = save["c1"].cand

====
